---- MODULE Spec2Model ----
(***************************************************************************)
(* Model of library/button.py (Button: debounced single press and long    *)
(* press detection) and library/lidar_lib.py (LidarSensor: framed UART    *)
(* reader polled by a cooperative task next to a LED blink task).         *)
(*                                                                         *)
(* Two state machines share this module.  SpecButton runs the Button      *)
(* detectors against a clock and an input line; SpecLidar runs the two    *)
(* uasyncio tasks of run_lidar_tasks against a UART receive buffer.       *)
(* A third, SpecCal, runs the calibration functions of                    *)
(* library/mlx90393_config.py against the module global they share.       *)
(***************************************************************************)
EXTENDS Integers, Sequences, FiniteSets, TLC

\* ------------------------------------------------------------------ bounds
\* Largest value of the millisecond clock that the model explores.  All
\* explored tick values stay far inside half a ticks period, where
\* time.ticks_diff is plain subtraction.
MaxTime == 6

\* ------------------------------------------------------------- Button state
VARIABLES
    now,               \* time.ticks_ms(): the millisecond clock
    level,             \* self.pin.value(): 1 released, 0 pressed (active low)
    debounce_ms,       \* self.debounce_ms
    press_duration_ms, \* self.press_duration_ms
    last_state_once,   \* self.last_state_once
    last_state_for,    \* self.last_state_for
    last_press_time,   \* self.last_press_time
    press_start_time,  \* self.press_start_time
    lastOp,            \* the operation that made the last step
    onceRet,           \* value returned by the last is_pressed_once call
    forRet,            \* value returned by the last is_pressed_for call
    onceObs,           \* what the last is_pressed_once call observed
    forObs,            \* what the last is_pressed_for call observed
    onceEdgeT,         \* time of the latest falling edge seen by is_pressed_once
    onceAccT,          \* time of the latest call of is_pressed_once returning True
    onceSawHigh,       \* is_pressed_once sampled level 1 since it last returned True
    forPressT,         \* time at which is_pressed_for saw the current press begin
    forReleased,       \* is_pressed_for has seen the release of that press
    forLong,           \* that press was held for at least press_duration_ms
    forTrueCnt         \* calls of is_pressed_for returning True for that press

buttonVars == <<now, level, debounce_ms, press_duration_ms, last_state_once,
                last_state_for, last_press_time, press_start_time, lastOp,
                onceRet, forRet, onceObs, forObs, onceEdgeT, onceAccT,
                onceSawHigh, forPressT, forReleased, forLong, forTrueCnt>>

\* -------------------------------------------------------------- Lidar state
VARIABLES
    wire,       \* bytes the sensor has still to put on the serial line
    rx,         \* the UART receive buffer (self.uart)
    arrived,    \* every byte that entered the receive buffer, in order
    upc,        \* position of the update task: "read" or "callback" or "sleep"
    result,     \* the local variable result of update
    bpc,        \* position of the blink_led task: "off" or "on"
    led,        \* level of the LED pin (self.led)
    current,    \* the task that is running, "idle" when the scheduler is
    runq,       \* tasks ready to run, in wake-up order
    asleep,     \* tasks suspended in asyncio.sleep_ms
    nReads,     \* number of 9-byte chunks read from the buffer so far
    lastChunk,  \* the chunk taken by the last read_lidar call, <<>> if none
    lastTaken,  \* number of bytes the last read_lidar call removed
    delivered   \* the callback invocations so far: chunk number and values

lidarVars == <<wire, rx, arrived, upc, result, bpc, led, current, runq,
               asleep, nReads, lastChunk, lastTaken, delivered>>

\* -------------------------------------------------------- Calibration state
VARIABLES
    mlx90393,             \* the constants imported from micropython_mlx90393
    CURRENT_CALIBRATION,  \* the module global: None or a dict of six settings
    sensor,               \* the six attributes configure_sensor writes
    calRet,               \* value of the last get_current_calibration call
    calLast,              \* arguments of the last configure_sensor call
    calOp                 \* the last call: "init", "configure" or "get"

calVars == <<mlx90393, CURRENT_CALIBRATION, sensor, calRet, calLast, calOp>>

vars == <<buttonVars, lidarVars, calVars>>

\* Values of the constructor arguments debounce_ms and press_duration_ms.
DebounceChoices == {1, 2}
PressDurationChoices == {2, 3}

\* "no such time yet" for the history variables
NoTime == -1

NoObs == [prev |-> 1, cur |-> 1]

\* time.ticks_diff(a, b) within half a ticks period
ticks_diff(a, b) == a - b

\* Button.__init__
InitButton ==
    /\ now \in 0..MaxTime
    /\ level \in {0, 1}
    /\ debounce_ms \in DebounceChoices
    /\ press_duration_ms \in PressDurationChoices
    /\ last_state_once = level
    /\ last_state_for = level
    /\ last_press_time = 0
    /\ press_start_time = 0
    /\ lastOp = "init"
    /\ onceRet = FALSE
    /\ forRet = FALSE
    /\ onceObs = NoObs
    /\ forObs = NoObs
    /\ onceEdgeT = NoTime
    /\ onceAccT = NoTime
    /\ onceSawHigh = FALSE
    /\ forPressT = NoTime
    /\ forReleased = FALSE
    /\ forLong = FALSE
    /\ forTrueCnt = 0

onceHist == <<onceRet, onceObs, onceEdgeT, onceAccT, onceSawHigh>>
forHist == <<forRet, forObs, forPressT, forReleased, forLong, forTrueCnt>>
config == <<debounce_ms, press_duration_ms>>

\* The clock advances by one millisecond.
Tick ==
    /\ now < MaxTime
    /\ now' = now + 1
    /\ lastOp' = "tick"
    /\ UNCHANGED <<level, config, last_state_once, last_state_for,
                   last_press_time, press_start_time, onceHist, forHist>>
    /\ UNCHANGED <<lidarVars, calVars>>

\* The input line changes level (press, release or contact bounce).
LineChange ==
    /\ level' = 1 - level
    /\ lastOp' = "line"
    /\ UNCHANGED <<now, config, last_state_once, last_state_for,
                   last_press_time, press_start_time, onceHist, forHist>>
    /\ UNCHANGED <<lidarVars, calVars>>

FallingEdge(cur, prev) == cur = 0 /\ prev = 1
RisingEdge(cur, prev) == cur = 1 /\ prev = 0

\* is_pressed_for: the condition under which the call returns True
ForFires_Strict(cur, prev, t, pst, dur) ==
    RisingEdge(cur, prev) /\ ticks_diff(t, pst) > dur
ForFires_LiveHold(cur, prev, t, pst, dur) ==
    cur = 0 /\ prev = 0 /\ ticks_diff(t, pst) >= dur
ForFires(cur, prev, t, pst, dur) ==
    RisingEdge(cur, prev) /\ ticks_diff(t, pst) >= dur

\* is_pressed_for: the press start time after the falling-edge test
ForPressStart(cur, prev, t, pst) ==
    IF FallingEdge(cur, prev) THEN t ELSE pst

\* is_pressed_for: self.last_state_for = current_state (no other level field)
ForStoreLevel(s) ==
    last_state_for' = s /\ last_state_once' = last_state_once

\* Button.is_pressed_for
IsPressedFor ==
    LET current_time == now
        current_state == level
        pst == ForPressStart(current_state, last_state_for, current_time,
                             press_start_time)
        ret == ForFires(current_state, last_state_for, current_time, pst,
                        press_duration_ms)
        fall == FallingEdge(current_state, last_state_for)
        rise == RisingEdge(current_state, last_state_for)
    IN  /\ press_start_time' = pst
        /\ ForStoreLevel(current_state)
        /\ forRet' = ret
        /\ forObs' = [prev |-> last_state_for, cur |-> current_state]
        /\ forPressT' = IF fall THEN current_time ELSE forPressT
        /\ forReleased' = IF fall THEN FALSE
                          ELSE IF rise THEN TRUE ELSE forReleased
        /\ forLong' = IF fall THEN FALSE
                      ELSE IF rise /\ forPressT # NoTime
                      THEN current_time - forPressT >= press_duration_ms
                      ELSE forLong
        /\ forTrueCnt' = IF fall THEN 0
                         ELSE IF ret /\ forTrueCnt < 2 THEN forTrueCnt + 1
                         ELSE forTrueCnt
        /\ lastOp' = "for"
        /\ UNCHANGED <<now, level, config, last_press_time, onceHist>>
        /\ UNCHANGED <<lidarVars, calVars>>

\* is_pressed_once: the condition under which the call returns True
OnceAccepts_Level(cur, prev, t, lpt, deb) ==
    cur = 0 /\ ticks_diff(t, lpt) > deb
OnceAccepts_Inclusive(cur, prev, t, lpt, deb) ==
    FallingEdge(cur, prev) /\ ticks_diff(t, lpt) >= deb
OnceAccepts(cur, prev, t, lpt, deb) ==
    FallingEdge(cur, prev) /\ ticks_diff(t, lpt) > deb

\* is_pressed_once: self.last_state_once = current_state (no other level
\* field)
OnceStoreLevel_Shared(s) ==
    last_state_once' = s /\ last_state_for' = s
OnceStoreLevel(s) ==
    last_state_once' = s /\ last_state_for' = last_state_for

\* Button.is_pressed_once
IsPressedOnce ==
    LET current_time == now
        current_state == level
        ret == OnceAccepts(current_state, last_state_once, current_time,
                           last_press_time, debounce_ms)
        fall == FallingEdge(current_state, last_state_once)
    IN  /\ last_press_time' = IF ret THEN current_time ELSE last_press_time
        /\ OnceStoreLevel(current_state)
        /\ onceRet' = ret
        /\ onceObs' = [prev |-> last_state_once, cur |-> current_state]
        /\ onceEdgeT' = IF fall THEN current_time ELSE onceEdgeT
        /\ onceAccT' = IF ret THEN current_time ELSE onceAccT
        /\ onceSawHigh' = IF ret THEN FALSE
                          ELSE IF current_state = 1 THEN TRUE
                          ELSE onceSawHigh
        /\ lastOp' = "once"
        /\ UNCHANGED <<now, level, config, press_start_time, forHist>>
        /\ UNCHANGED <<lidarVars, calVars>>

\* ------------------------------------------------------------ Lidar frames
\* Bounds of the byte streams the sensor sends.
MaxFrames == 2
MaxRx == 11

FrameLen == 9
HeaderByte == 89

\* read_lidar's "return None"
None == <<>>

RECURSIVE SumBytes(_)
SumBytes(bytes) ==
    IF bytes = <<>> THEN 0 ELSE Head(bytes) + SumBytes(Tail(bytes))

\* The frame the sensor builds for six payload bytes (packet format of the
\* read_lidar docstring).
MkFrame(f) ==
    LET body == <<HeaderByte, HeaderByte>> \o f
    IN  Append(body, SumBytes(body) % 256)

\* Payload bytes 2..7 of the frames the sensor sends.
FrameFields ==
    { <<50, 0, 100, 0, 0, 0>>,
      <<1, 2, 3, 4, 7, 1>> }

GoodFrames == { MkFrame(f) : f \in FrameFields }

\* Line noise: one byte of a frame replaced.
Corrupt(frame, i, b) == [frame EXCEPT ![i] = b]

\* A frame with every bit of its checksum byte flipped and a frame whose
\* checksum leaves byte 7 out.  (Chunks with a wrong first or second header
\* byte come from the streams that start off the frame boundary.)
BadFrames ==
    { Corrupt(MkFrame(<<50, 0, 100, 0, 0, 0>>), 9, 255 - 72),
      Corrupt(MkFrame(<<1, 2, 3, 4, 7, 1>>), 9, 195) }

Chunks == GoodFrames \cup BadFrames

\* Bytes on the line before the first frame boundary: none, or one byte, or
\* the last eight bytes of a frame; the last two put every chunk boundary one
\* byte or eight bytes off the frame boundary.
Prefixes ==
    { <<>>, <<HeaderByte>>, Tail(MkFrame(<<50, 0, 100, 0, 0, 0>>)) }

RECURSIVE Streams(_)
Streams(n) ==
    IF n = 0 THEN { <<>> }
    ELSE { c \o rest : c \in Chunks, rest \in Streams(n - 1) }

Tasks == {"update", "blink"}

\* LidarSensor.__init__ and the start of run_lidar_tasks
InitLidar ==
    /\ wire \in { p \o st : p \in Prefixes, st \in Streams(MaxFrames) }
    /\ rx = <<>>
    /\ arrived = <<>>
    /\ upc = "read"
    /\ result = None
    /\ bpc = "off"
    /\ led \in {0, 1}
    /\ current = "idle"
    /\ runq = <<"update", "blink">>
    /\ asleep = {}
    /\ nReads = 0
    /\ lastChunk = <<>>
    /\ lastTaken = 0
    /\ delivered = <<>>

lidarHist == <<nReads, lastChunk, lastTaken>>
sched == <<current, runq, asleep>>

\* The UART hardware receives the next byte of the line; a byte that finds
\* the receive buffer full is lost.
Arrive ==
    /\ wire # <<>>
    /\ wire' = Tail(wire)
    /\ IF Len(rx) < MaxRx
       THEN /\ rx' = Append(rx, Head(wire))
            /\ arrived' = Append(arrived, Head(wire))
       ELSE UNCHANGED <<rx, arrived>>
    /\ UNCHANGED <<upc, result, bpc, led, sched, lidarHist, delivered>>
    /\ UNCHANGED <<buttonVars, calVars>>

\* self.uart.any()
UartAny(buf) == Len(buf)

\* self.uart.read(n): the bytes returned and the bytes left in the buffer
UartRead(buf, n) ==
    LET k == IF Len(buf) < n THEN Len(buf) ELSE n
    IN  [data |-> SubSeq(buf, 1, k), rest |-> SubSeq(buf, k + 1, Len(buf))]

HeaderOk(data) == data[1] = HeaderByte /\ data[2] = HeaderByte

\* (sum(data[0:8]) & 0xFF) == data[8]
ChecksumOk_Sum7(data) == (SumBytes(SubSeq(data, 1, 7)) % 256) = data[9]
ChecksumOk_Skip(data) == TRUE
ChecksumOk_NoTrunc(data) == SumBytes(SubSeq(data, 1, 8)) = data[9]
ChecksumOk(data) == (SumBytes(SubSeq(data, 1, 8)) % 256) = data[9]

\* distance = data[2] | (data[3] << 8); strength = data[4] | (data[5] << 8)
Decode_Swapped(data) == <<data[4] + 256 * data[3], data[6] + 256 * data[5]>>
Decode(data) == <<data[3] + 256 * data[4], data[5] + 256 * data[6]>>

\* read_lidar after the read: validation and decoding of the bytes read
Parse(data) ==
    IF Len(data) < FrameLen THEN None
    ELSE IF ~HeaderOk(data) THEN None
    ELSE IF ~ChecksumOk(data) THEN None
    ELSE Decode(data)

\* LidarSensor.read_lidar: the value returned, the bytes read, the buffer left
ReadLidar_Peek(buf) ==
    IF UartAny(buf) < FrameLen
    THEN [ret |-> None, data |-> <<>>, rest |-> buf]
    ELSE LET r == UartRead(buf, FrameLen)
         IN  [ret |-> Parse(r.data), data |-> r.data,
              rest |-> IF Parse(r.data) = None THEN Tail(buf) ELSE r.rest]
ReadLidar_Short(buf) ==
    LET r == UartRead(buf, FrameLen)
    IN  [ret |-> Parse(r.data), data |-> r.data, rest |-> r.rest]
ReadLidar(buf) ==
    IF UartAny(buf) < FrameLen
    THEN [ret |-> None, data |-> <<>>, rest |-> buf]
    ELSE LET r == UartRead(buf, FrameLen)
         IN  [ret |-> Parse(r.data), data |-> r.data, rest |-> r.rest]

\* The scheduler takes control only when the running task has suspended.
CanRun_Preempt(cur) == TRUE
CanRun(cur) == cur = "idle"

\* The uasyncio scheduler resumes the task at the head of the ready queue.
Dispatch ==
    /\ CanRun(current)
    /\ runq # <<>>
    /\ current' = Head(runq)
    /\ runq' = Tail(runq)
    /\ UNCHANGED <<wire, rx, arrived, upc, result, bpc, led, asleep,
                   lidarHist, delivered>>
    /\ UNCHANGED <<buttonVars, calVars>>

\* The sleep of a suspended task ends: the task becomes ready to run.
TimerExpireOf(t) ==
    /\ t \in asleep
    /\ current # t
    /\ asleep' = asleep \ {t}
    /\ runq' = Append(runq, t)
    /\ UNCHANGED <<wire, rx, arrived, upc, result, bpc, led, current,
                   lidarHist, delivered>>
    /\ UNCHANGED <<buttonVars, calVars>>

TimerExpire == \E t \in Tasks : TimerExpireOf(t)

\* update: result = self.read_lidar()
UpdateReadLidar ==
    /\ current = "update"
    /\ upc = "read"
    /\ LET r == ReadLidar(rx)
       IN  /\ result' = r.ret
           /\ rx' = r.rest
           /\ lastChunk' = r.data
           /\ lastTaken' = Len(rx) - Len(r.rest)
           /\ nReads' = IF r.data = <<>> THEN nReads ELSE nReads + 1
    /\ upc' = "callback"
    /\ UNCHANGED <<wire, arrived, bpc, led, sched, delivered>>
    /\ UNCHANGED <<buttonVars, calVars>>

\* update: if result is not None
CallbackFires_Always(res) == TRUE
CallbackFires(res) == res # None

\* update: if result is not None, hand distance and strength to the callback
UpdateCallback ==
    /\ current = "update"
    /\ upc = "callback"
    /\ delivered' = IF CallbackFires(result)
                    THEN Append(delivered, [k |-> nReads, val |-> result])
                    ELSE delivered
    /\ upc' = "sleep"
    /\ UNCHANGED <<wire, rx, arrived, result, bpc, led, sched, lidarHist>>
    /\ UNCHANGED <<buttonVars, calVars>>

\* What a task's suspension leaves in the scheduler: the task that runs.
Suspend_Blocking(t) == t
Suspend(t) == "idle"

\* update: await asyncio.sleep_ms(poll_interval_ms)
UpdateSleep ==
    /\ current = "update"
    /\ upc = "sleep"
    /\ upc' = "read"
    /\ current' = Suspend("update")
    /\ asleep' = asleep \cup {"update"}
    /\ UNCHANGED <<wire, rx, arrived, result, bpc, led, runq, lidarHist,
                   delivered>>
    /\ UNCHANGED <<buttonVars, calVars>>

\* blink_led: the level written at each of its two positions
LedLevel_FromFrame(pc) == IF result # None THEN 1 ELSE 0
LedLevel(pc) == IF pc = "off" THEN 0 ELSE 1

\* blink_led: self.led.value(0); await asyncio.sleep_ms(blink_interval_ms)
BlinkOff ==
    /\ current = "blink"
    /\ bpc = "off"
    /\ led' = LedLevel("off")
    /\ bpc' = "on"
    /\ current' = Suspend("blink")
    /\ asleep' = asleep \cup {"blink"}
    /\ UNCHANGED <<wire, rx, arrived, upc, result, runq, lidarHist,
                   delivered>>
    /\ UNCHANGED <<buttonVars, calVars>>

\* blink_led: self.led.value(1); await asyncio.sleep_ms(blink_interval_ms)
BlinkOn ==
    /\ current = "blink"
    /\ bpc = "on"
    /\ led' = LedLevel("on")
    /\ bpc' = "off"
    /\ current' = Suspend("blink")
    /\ asleep' = asleep \cup {"blink"}
    /\ UNCHANGED <<wire, rx, arrived, upc, result, runq, lidarHist,
                   delivered>>
    /\ UNCHANGED <<buttonVars, calVars>>

\* ------------------------------------------------------------ Calibration
\* Values passed for each argument of configure_sensor, two of the values
\* get_possible_configurations lists for it.
GainChoices == {0, 7}
ResolutionChoices == {0, 3}
FilterChoices == {0, 7}
OversamplingChoices == {0, 3}

Settings ==
    [gain : GainChoices, resolution_x : ResolutionChoices,
     resolution_y : ResolutionChoices, resolution_z : ResolutionChoices,
     digital_filter : FilterChoices, oversampling : OversamplingChoices]

\* A calibration in RAM: <<>> for None, <<c>> for the dict c.
Dict(c) == <<c>>

\* GAIN_1X, RESOLUTION_3, FILTER_7 and OSR_3 come from micropython_mlx90393,
\* which is no part of this repository: each is one fixed value of its
\* setting, chosen when the module is imported.
Imported ==
    [GAIN_1X : GainChoices, RESOLUTION_3 : ResolutionChoices,
     FILTER_7 : FilterChoices, OSR_3 : OversamplingChoices]

InitCal ==
    /\ mlx90393 \in Imported
    /\ CURRENT_CALIBRATION = None
    /\ sensor = None
    /\ calRet = None
    /\ calLast = None
    /\ calOp = "init"

GetDefaultCalibration ==
    [gain |-> mlx90393.GAIN_1X,
     resolution_x |-> mlx90393.RESOLUTION_3,
     resolution_y |-> mlx90393.RESOLUTION_3,
     resolution_z |-> mlx90393.RESOLUTION_3,
     digital_filter |-> mlx90393.FILTER_7,
     oversampling |-> mlx90393.OSR_3]

\* The dict configure_sensor builds from its arguments.
StoredDict(gain, resolution_x, resolution_y, resolution_z, digital_filter, oversampling) ==
    [gain |-> gain, resolution_x |-> resolution_x,
     resolution_y |-> resolution_y, resolution_z |-> resolution_z,
     digital_filter |-> digital_filter, oversampling |-> oversampling]

ConfigureSensor ==
    \E a \in Settings :
        /\ sensor' = Dict(a)
        /\ CURRENT_CALIBRATION' =
               Dict(StoredDict(a.gain, a.resolution_x, a.resolution_y,
                               a.resolution_z, a.digital_filter,
                               a.oversampling))
        /\ calLast' = Dict(a)
        /\ calOp' = "configure"
        /\ UNCHANGED <<mlx90393, calRet>>
        /\ UNCHANGED <<buttonVars, lidarVars>>

\* The global after the None test of get_current_calibration.
CalibrationAfterGet_Reset(c) == Dict(GetDefaultCalibration)

CalibrationAfterGet(c) == IF c = None THEN Dict(GetDefaultCalibration) ELSE c

GetCurrentCalibration ==
    /\ CURRENT_CALIBRATION' = CalibrationAfterGet(CURRENT_CALIBRATION)
    /\ calRet' = CURRENT_CALIBRATION'
    /\ calOp' = "get"
    /\ UNCHANGED <<mlx90393, sensor, calLast>>
    /\ UNCHANGED <<buttonVars, lidarVars>>

\* ---------------------------------------------------------- specifications
\* The lidar variables while only the Button runs.
LidarAbsent ==
    /\ wire = <<>>
    /\ rx = <<>>
    /\ arrived = <<>>
    /\ upc = "read"
    /\ result = None
    /\ bpc = "off"
    /\ led = 0
    /\ current = "idle"
    /\ runq = <<>>
    /\ asleep = {}
    /\ nReads = 0
    /\ lastChunk = <<>>
    /\ lastTaken = 0
    /\ delivered = <<>>

\* The Button variables while only the lidar tasks run.
ButtonAbsent ==
    /\ now = 0
    /\ level = 1
    /\ debounce_ms = 50
    /\ press_duration_ms = 500
    /\ last_state_once = 1
    /\ last_state_for = 1
    /\ last_press_time = 0
    /\ press_start_time = 0
    /\ lastOp = "init"
    /\ onceRet = FALSE
    /\ forRet = FALSE
    /\ onceObs = NoObs
    /\ forObs = NoObs
    /\ onceEdgeT = NoTime
    /\ onceAccT = NoTime
    /\ onceSawHigh = FALSE
    /\ forPressT = NoTime
    /\ forReleased = FALSE
    /\ forLong = FALSE
    /\ forTrueCnt = 0

\* The calibration variables while the calibration functions are not called.
CalAbsent ==
    /\ mlx90393 = [GAIN_1X |-> 7, RESOLUTION_3 |-> 3, FILTER_7 |-> 7, OSR_3 |-> 3]
    /\ CURRENT_CALIBRATION = None
    /\ sensor = None
    /\ calRet = None
    /\ calLast = None
    /\ calOp = "init"

InitB == InitButton /\ LidarAbsent /\ CalAbsent
NextButton == Tick \/ LineChange \/ IsPressedOnce \/ IsPressedFor
SpecButton == InitB /\ [][NextButton]_vars

InitL == ButtonAbsent /\ InitLidar /\ CalAbsent
NextLidar ==
    \/ Arrive
    \/ Dispatch
    \/ TimerExpire
    \/ UpdateReadLidar
    \/ UpdateCallback
    \/ UpdateSleep
    \/ BlinkOff
    \/ BlinkOn
SpecLidar == InitL /\ [][NextLidar]_vars

\* The sensor stalls before a whole frame is in the receive buffer: the UART
\* never holds 9 bytes.
ArriveFew == Len(rx) < FrameLen - 1 /\ Arrive

NextStarved ==
    \/ ArriveFew
    \/ Dispatch
    \/ TimerExpire
    \/ UpdateReadLidar
    \/ UpdateCallback
    \/ UpdateSleep
    \/ BlinkOff
    \/ BlinkOn

\* Every sleep ends, the scheduler resumes the head of its ready queue, and
\* a running task runs on to its next await.
SchedFairness ==
    /\ WF_vars(Dispatch)
    /\ WF_vars(TimerExpireOf("update"))
    /\ WF_vars(TimerExpireOf("blink"))
    /\ WF_vars(UpdateReadLidar \/ UpdateCallback \/ UpdateSleep)
    /\ WF_vars(BlinkOff \/ BlinkOn)

SpecStarved == InitL /\ [][NextStarved]_vars /\ SchedFairness

InitC == ButtonAbsent /\ LidarAbsent /\ InitCal
NextCal == ConfigureSensor \/ GetCurrentCalibration
SpecCal == InitC /\ [][NextCal]_vars

\* ---------------------------------------------------------- Button claims

\* A step made by a call of is_pressed_once that observes a falling edge.
OnceEdgeStep == lastOp' = "once" /\ FallingEdge(level, last_state_once)

\* C1 as stated: a falling edge that is_pressed_once observes less than
\* debounce_ms after the previous falling edge it observed (a later edge of
\* a closely spaced sequence) is not reported.  Stated for the edges that
\* follow a reported press, so that the initial last_press_time plays no part.
C1_SpacedEdgesSuppressed ==
    [][(/\ OnceEdgeStep
        /\ onceAccT # NoTime
        /\ onceEdgeT # NoTime
        /\ now - onceEdgeT < debounce_ms)
        => onceRet' = FALSE]_vars

\* C1 amended: a falling edge that is_pressed_once observes no more than
\* debounce_ms after the latest falling edge it reported as a press is not
\* reported; the window is measured from the last reported press.
C1_DebounceFromAccepted ==
    [][(OnceEdgeStep /\ onceAccT # NoTime /\ now - onceAccT <= debounce_ms)
        => onceRet' = FALSE]_vars

C1_Witness ==
    /\ lastOp = "once"
    /\ FallingEdge(onceObs.cur, onceObs.prev)
    /\ onceAccT # NoTime
    /\ now - onceAccT <= debounce_ms
    /\ ~onceRet

\* C2: for a press whose falling edge is_pressed_for observed, no call
\* returns True before the release is observed; once the release is observed
\* the number of calls that returned True for the press is 0 when the hold
\* time was below press_duration_ms and exactly 1 when it was at least
\* press_duration_ms, and a True is returned by a call observing the release.
C2_LongPressThreshold ==
    /\ (forPressT # NoTime /\ ~forReleased) => forTrueCnt = 0
    /\ (forPressT # NoTime /\ forReleased /\ ~forLong) => forTrueCnt = 0
    /\ (forPressT # NoTime /\ forReleased /\ forLong) => forTrueCnt = 1
    /\ (lastOp = "for" /\ forPressT # NoTime /\ forRet)
           => (forReleased /\ RisingEdge(forObs.cur, forObs.prev))

C2_Witness ==
    /\ lastOp = "for"
    /\ forPressT # NoTime
    /\ forReleased
    /\ forLong
    /\ forRet
    /\ forTrueCnt = 1

\* C3: is_pressed_for returns True only on a call that samples the line
\* released right after sampling it pressed; a call that samples the line
\* pressed returns False however long the line has been held.
C3_FiresOnlyOnRelease ==
    /\ forRet => RisingEdge(forObs.cur, forObs.prev)
    /\ (lastOp = "for" /\ level = 0) => ~forRet

C3_Witness ==
    /\ lastOp = "for"
    /\ forObs = [prev |-> 0, cur |-> 0]
    /\ forPressT # NoTime
    /\ now - forPressT >= press_duration_ms
    /\ ~forRet

\* ----------------------------------------------------------- Lidar claims

\* A step made by a read_lidar call.
ReadStep == upc = "read" /\ upc' = "callback"

\* update has just made a read_lidar call that took a 9-byte chunk.
ChunkRead == upc = "callback" /\ Len(lastChunk) = 9

HeaderValid(c) == c[1] = 89 /\ c[2] = 89
Sum8(c) == (c[1] + c[2] + c[3] + c[4] + c[5] + c[6] + c[7] + c[8]) % 256
Sum7(c) == (c[1] + c[2] + c[3] + c[4] + c[5] + c[6] + c[7]) % 256

\* C4: a read_lidar call whose 9-byte chunk has a wrong header byte or a
\* checksum byte that does not match returns None and removes at most 9
\* bytes from the receive buffer.
C4_FrameIntegrity ==
    (ChunkRead /\ (~HeaderValid(lastChunk) \/ Sum8(lastChunk) # lastChunk[9]))
        => (result = None /\ lastTaken <= 9)

C4_Witness ==
    /\ ChunkRead
    /\ HeaderValid(lastChunk)
    /\ lastChunk[9] = 255 - Sum8(lastChunk)
    /\ result = None

\* C5: a read_lidar call that finds fewer than 9 bytes returns None and
\* leaves the receive buffer as it was; a call that finds 9 or more bytes
\* removes exactly the first 9 of them, whether or not they validate.
C5_ByteConsumption ==
    [][ReadStep =>
        IF Len(rx) < 9
        THEN result' = None /\ rx' = rx
        ELSE rx' = SubSeq(rx, 10, Len(rx))]_vars

C5_Witness ==
    /\ ChunkRead
    /\ result = None
    /\ lastTaken = 9
    /\ rx # <<>>

\* C6: a read_lidar call whose chunk has the header 0x59,0x59 and a correct
\* checksum returns distance = byte2 + 256*byte3 and strength = byte4 +
\* 256*byte5, both within 0..65535, whatever bytes 6..7 hold; bytes
\* 0x32,0x00,0x64,0x00 decode to distance 50 and strength 100.
C6_RoundTripDecode ==
    (ChunkRead /\ HeaderValid(lastChunk) /\ Sum8(lastChunk) = lastChunk[9])
        => /\ result = <<lastChunk[3] + 256 * lastChunk[4],
                         lastChunk[5] + 256 * lastChunk[6]>>
           /\ result[1] \in 0..65535
           /\ result[2] \in 0..65535
           /\ (SubSeq(lastChunk, 3, 6) = <<50, 0, 100, 0>>
                  => result = <<50, 100>>)

C6_Witness ==
    /\ ChunkRead
    /\ lastChunk = <<89, 89, 1, 2, 3, 4, 7, 1, 196>>
    /\ result = <<513, 1027>>

\* C7: a chunk with a valid header is accepted by read_lidar if and only if
\* the sum of its bytes 0..7, truncated to 8 bits, equals its byte 8.
C7_ChecksumPolicy ==
    (ChunkRead /\ HeaderValid(lastChunk))
        => (result # None <=> Sum8(lastChunk) = lastChunk[9])

C7_Witness ==
    /\ ChunkRead
    /\ HeaderValid(lastChunk)
    /\ result # None
    /\ lastChunk[1] + lastChunk[2] + lastChunk[3] + lastChunk[4]
         + lastChunk[5] + lastChunk[6] + lastChunk[7] + lastChunk[8] > 255

\* C8 as stated: a chunk with a valid header is discarded with None exactly
\* when the sum of its bytes 0..6, truncated to 8 bits, differs from byte 8.
C8_SumExcludesByte7 ==
    (ChunkRead /\ HeaderValid(lastChunk))
        => (result = None <=> Sum7(lastChunk) # lastChunk[9])

\* C8 amended: a read_lidar call that takes 9 bytes with a valid header
\* discards them with None exactly when the sum of bytes 0..7 (all bytes but
\* the last), truncated to 8 bits, differs from byte 8.
C8_SumIncludesByte7 ==
    [][(ReadStep /\ Len(rx) >= 9 /\ HeaderValid(rx))
        => (result' = None <=> Sum8(rx) # rx[9])]_vars

C8_Witness ==
    /\ ChunkRead
    /\ HeaderValid(lastChunk)
    /\ lastChunk[8] # 0
    /\ Sum7(lastChunk) # lastChunk[9]
    /\ result # None

\* C9: while the UART never holds 9 bytes, update never invokes the callback
\* and the blink task keeps running: the LED is driven low and driven high
\* again infinitely often.
C9_Starvation ==
    /\ [](delivered = <<>>)
    /\ []<>(led = 0 /\ bpc = "on")
    /\ []<>(led = 1 /\ bpc = "off")

C9_Witness ==
    /\ Len(rx) = FrameLen - 1
    /\ upc = "sleep"
    /\ result = None
    /\ delivered = <<>>
    /\ led = 1
    /\ bpc = "off"
    /\ "blink" \in asleep

\* The k-th 9-byte chunk of the bytes received.
ChunkOf(k) == SubSeq(arrived, 9 * (k - 1) + 1, 9 * k)

\* C10: the values handed to the callback are, in order, the decoded values
\* of 9-byte chunks taken consecutively from the received bytes, each from a
\* later chunk than the one before: none twice, none out of order.
C10_Ordering ==
    \A i \in 1..Len(delivered) :
        LET d == delivered[i]
        IN  /\ d.k >= 1
            /\ 9 * d.k <= Len(arrived)
            /\ HeaderValid(ChunkOf(d.k))
            /\ Sum8(ChunkOf(d.k)) = ChunkOf(d.k)[9]
            /\ d.val = <<ChunkOf(d.k)[3] + 256 * ChunkOf(d.k)[4],
                         ChunkOf(d.k)[5] + 256 * ChunkOf(d.k)[6]>>
            /\ (i > 1 => delivered[i - 1].k < d.k)

C10_Witness ==
    /\ Len(delivered) = 2
    /\ delivered[1].val # delivered[2].val
    /\ delivered[1].k = 1
    /\ delivered[2].k = 2

\* ------------------------------------------------- Button claims, continued

\* C11: a call of is_pressed_once leaves last_state_for and
\* press_start_time as they were, and a call of is_pressed_for leaves
\* last_state_once and last_press_time as they were: neither detector
\* writes the edge memory or the timing anchor of the other.
C11_DetectorIndependence ==
    [][/\ lastOp' = "once"
          => (last_state_for' = last_state_for
              /\ press_start_time' = press_start_time)
       /\ lastOp' = "for"
          => (last_state_once' = last_state_once
              /\ last_press_time' = last_press_time)]_vars

C11_Witness ==
    /\ lastOp = "once"
    /\ onceObs = [prev |-> 1, cur |-> 0]
    /\ last_state_once = 0
    /\ last_state_for = 1
    /\ forObs = [prev |-> 0, cur |-> 1]

\* A step made by a call of is_pressed_once.
OnceStep == lastOp' = "once"

\* C12: a call of is_pressed_once returns True exactly when it observes a
\* falling edge and either no press was reported before or more than
\* debounce_ms have passed since the last reported press; every other call
\* returns False; after the call the stored previous level is the level the
\* call sampled.
C12_OnceReturnsExactly ==
    [][OnceStep =>
        /\ onceRet' = (/\ FallingEdge(level, last_state_once)
                       /\ (onceAccT = NoTime \/ now - onceAccT > debounce_ms))
        /\ last_state_once' = level]_vars

\* C17: a call of is_pressed_once that returns True after an earlier one
\* did is preceded, since that earlier one, by a call that sampled the line
\* released; a call that samples the line pressed right after a call that
\* sampled it pressed returns False, whether the edge of that hold was
\* reported or suppressed and however long ago.
C17_OnePressPerHold ==
    [][OnceStep =>
        /\ (onceRet' /\ onceAccT # NoTime) => onceSawHigh
        /\ (level = 0 /\ lastOp # "init" /\ onceObs.cur = 0) => ~onceRet']_vars

C17_Witness ==
    /\ lastOp = "once"
    /\ onceObs = [prev |-> 0, cur |-> 0]
    /\ onceAccT # NoTime
    /\ onceEdgeT > onceAccT
    /\ now - onceAccT > debounce_ms
    /\ ~onceRet

\* C19: a call of is_pressed_for returns True only when an earlier call
\* observed the falling edge of the press being released and that press was
\* held, from that observation, for at least press_duration_ms.
C19_LongPressWasObserved ==
    (lastOp = "for" /\ forRet) => (forPressT # NoTime /\ forLong)

\* C20: the first falling edge that is_pressed_once observes after
\* construction is reported as a press, whatever the clock shows.
C20_FirstPressReported ==
    [][(OnceEdgeStep /\ onceEdgeT = NoTime) => onceRet' = TRUE]_vars

\* -------------------------------------------------- Lidar claims, continued

\* The step of update that ends its callback stage.
CallbackStep == upc = "callback" /\ upc' = "sleep"

\* C13: an iteration of update makes its one read_lidar call first, then
\* invokes the callback once, with the frame of that call, when the call
\* produced a frame and not at all when it produced None, then suspends in
\* its sleep before the next iteration; the callback is invoked in no other
\* step.
C13_OneReadOneCallback ==
    [][/\ (delivered' # delivered)
          => (/\ CallbackStep
              /\ result # None
              /\ delivered' = Append(delivered,
                                     [k |-> nReads, val |-> result]))
       /\ (CallbackStep /\ result # None)
          => Len(delivered') = Len(delivered) + 1
       /\ (nReads' # nReads \/ result' # result)
          => (upc = "read" /\ upc' = "callback")
       /\ (upc' # upc)
          => (<<upc, upc'>> \in { <<"read", "callback">>,
                                  <<"callback", "sleep">>,
                                  <<"sleep", "read">> })
       /\ (upc = "sleep" /\ upc' = "read")
          => (current' # "update" /\ "update" \in asleep')]_vars

C13_Witness ==
    /\ current = "update"
    /\ upc = "sleep"
    /\ result # None
    /\ delivered # <<>>
    /\ delivered[Len(delivered)] = [k |-> nReads, val |-> result]

\* C14: the LED is written only while update is at its suspension point;
\* no LED write falls between the read_lidar call and the callback of one
\* update iteration, or before its sleep.
C14_IterationAtomic ==
    [][(led' # led \/ bpc' # bpc)
        => (upc = "read" /\ current # "update")]_vars

C14_Witness ==
    /\ current = "update"
    /\ upc = "callback"
    /\ Len(lastChunk) = 9
    /\ result # None
    /\ runq # <<>>
    /\ Head(runq) = "blink"

\* The callback invocations that n consecutive 9-byte chunks of the bytes
\* received give rise to.
RECURSIVE Expected(_)
Expected(n) ==
    IF n = 0 THEN <<>>
    ELSE LET c == ChunkOf(n)
         IN  IF HeaderValid(c) /\ Sum8(c) = c[9]
             THEN Append(Expected(n - 1),
                         [k |-> n, val |-> <<c[3] + 256 * c[4],
                                             c[5] + 256 * c[6]>>])
             ELSE Expected(n - 1)

\* Chunks whose callback stage is over.
ChunksDone ==
    IF upc = "callback" /\ lastChunk # <<>> THEN nReads - 1 ELSE nReads

\* C15: the frames delivered to the callback are determined by the bytes
\* received alone (every well-formed chunk, in order), whatever the
\* interleaving with blink_led; a blink_led step writes 0 then 1 in turn,
\* whatever the frames hold, and changes nothing of update's state; a step of
\* update leaves the LED alone.
C15_BlinkNonInterference ==
    /\ [](delivered = Expected(ChunksDone))
    /\ [][(led' # led \/ bpc' # bpc)
           => (/\ led' = (IF bpc = "off" THEN 0 ELSE 1)
               /\ bpc' = (IF bpc = "off" THEN "on" ELSE "off")
               /\ UNCHANGED <<rx, upc, result, nReads, lastChunk,
                              delivered>>)]_vars
    /\ [][(upc' # upc) => led' = led]_vars

C15_Witness ==
    /\ nReads = 2
    /\ Len(delivered) = 1
    /\ upc = "sleep"
    /\ led = 1
    /\ bpc = "off"
    /\ "blink" \in asleep

\* The bytes received are k stray bytes followed by MaxFrames well-formed
\* frames, none lost.
Misaligned(k) ==
    /\ wire = <<>>
    /\ Len(arrived) = k + 9 * MaxFrames
    /\ \A j \in 0..(MaxFrames - 1) :
           SubSeq(arrived, k + 9 * j + 1, k + 9 * j + 9) \in GoodFrames

\* C16 as stated: when the stream is a sequence of well-formed frames and
\* the chunk boundary is k bytes (1 <= k <= 8) off the frame boundary, the
\* reader has returned a frame again once it has polled a few chunks.
C16_SelfCorrecting ==
    \A k \in 1..8 :
        (Misaligned(k) /\ nReads = MaxFrames /\ upc = "read")
            => delivered # <<>>

\* C16 amended: read_lidar takes bytes in whole 9-byte chunks only and never
\* shifts the buffer: the buffer is the bytes received less the first
\* 9 * nReads, so every chunk boundary keeps the offset of the first.
C16_OffsetPreserved ==
    /\ Len(arrived) >= 9 * nReads
    /\ rx = SubSeq(arrived, 9 * nReads + 1, Len(arrived))

C16_Witness ==
    /\ \E k \in 1..8 : Misaligned(k)
    /\ nReads = MaxFrames
    /\ upc = "read"
    /\ Len(rx) < 9
    /\ delivered = <<>>

\* ----------------------------------------------------- Calibration claims
\* The settings get_current_calibration has to return: those of the last
\* configure_sensor call, the default calibration when there was none.
ExpectedCalibration ==
    IF calLast = None THEN Dict(GetDefaultCalibration) ELSE calLast

\* C18: after any sequence of configure_sensor and get_current_calibration
\* calls, get_current_calibration returns the six settings of the most
\* recent configure_sensor call, or the default calibration if
\* configure_sensor was never called; and a get_current_calibration call
\* changes neither the settings a configure_sensor call stored nor the
\* sensor's attributes.
C18_CalibrationInRam ==
    /\ [](calOp = "get" => calRet = ExpectedCalibration)
    /\ [][(calOp' = "get" /\ calLast # None) =>
              /\ CURRENT_CALIBRATION' = CURRENT_CALIBRATION
              /\ CURRENT_CALIBRATION' = calLast
              /\ sensor' = sensor]_vars

\* A get_current_calibration call after a configure_sensor call whose
\* settings are not the default calibration and differ between the axes: it
\* returned those settings, which the sensor carries too.
C18_Witness ==
    /\ calOp = "get"
    /\ calLast # None
    /\ calRet = calLast
    /\ calRet # Dict(GetDefaultCalibration)
    /\ calRet[1].resolution_x # calRet[1].resolution_y
    /\ calRet[1].resolution_y = calRet[1].resolution_z
    /\ sensor = calLast

====
